---- MODULE Spec2Model ----
(***************************************************************************)
(* Authentication tokens of the budget app server                          *)
(* (src/src/utils/auth_token.rs): the claims codec, the HMAC signer, the   *)
(* transport string, issuance, validation and the token blacklist; and the *)
(* attempt throttle over the tables otp_attempts and password_attempts     *)
(* (src/src/schema.rs) with the thresholds of Security (src/src/env.rs).   *)
(*                                                                         *)
(* A decoded token buffer is a sequence of symbols.  A symbol is a record  *)
(* [k, v, m]: k = "chr" is one character of a JSON string (v its code),    *)
(* k = "exp"/"uid"/"typ"/"slt"/"xtr" is one numeric JSON member with value *)
(* v, k = "eml"/"cur" is the key of a string member, "q" a double quote,   *)
(* "{" and "}" the braces, and k = "hex"/"HEX" is the 64 hex digits (lower *)
(* or upper case) of the HMAC-SHA256 of message m under key v.  The HMAC is *)
(* taken to be collision free.  The characters of the strings are valid   *)
(* UTF-8 and no hex digits.                                                *)
(***************************************************************************)
EXTENDS Integers, Sequences, FiniteSets, TLC

VARIABLES clock, conf, blacklisted_tokens, issued, tok, out,
          security, otp_attempts, password_attempts, calls, pending, display, log

\* The state of the attempt throttle.
throttle == <<security, otp_attempts, password_attempts, calls, pending>>

vars == <<clock, conf, blacklisted_tokens, issued, tok, out, throttle, display, log>>

(***************************************************************************)
(* Bounds of the model.                                                    *)
(***************************************************************************)
MaxTime == 1
MaxStrLen == 1
MaxRows == 2
MaxIssued == 2
MaxCount == 2
MaxCalls == 3
MaxFrames == 3

Pipe == 124
OtherChars == {117}
Chars == OtherChars \cup {Pipe}
Keys == {1, 2}
token_signing_key == 1
Uids == {1, 2}
Salts == {1, 2}
U8Max == 255
TypCodes == {0, 1, 2, 3}

RECURSIVE SeqsUpTo(_, _)
SeqsUpTo(S, n) ==
    IF n = 0 THEN {<<>>}
    ELSE LET shorter == SeqsUpTo(S, n - 1)
         IN shorter \cup {Append(s, x) : s \in shorter, x \in S}

Sym(k, v) == [k |-> k, v |-> v, m |-> <<>>]
Chr(c) == Sym("chr", c)
Str(cs) == [i \in 1..Len(cs) |-> Chr(cs[i])]
Strs == {Str(cs) : cs \in SeqsUpTo(Chars, MaxStrLen)}

(***************************************************************************)
(* TokenError and Result values.                                           *)
(***************************************************************************)
\* ok: Ok or Err; err: the TokenError variant; v: the value NoMatchForValue
\* carries; claims: the TokenClaims of an Ok; is: the bool of an Ok(bool);
\* row: the id of the BlacklistedToken of an Ok(row).
NoClaims == [exp |-> 0, uid |-> 0, eml |-> <<>>, cur |-> <<>>, typ |-> 0, slt |-> 0]
Ok(c) == [ok |-> TRUE, err |-> "", v |-> 0, claims |-> c, is |-> FALSE, row |-> 0]
Err(e) == [ok |-> FALSE, err |-> e, v |-> 0, claims |-> NoClaims, is |-> FALSE, row |-> 0]
InvalidTokenType(v) == [Err("InvalidTokenType") EXCEPT !.v = v]
OkBool(b) == [Ok(NoClaims) EXCEPT !.is = b]
OkRow(id) == [Ok(NoClaims) EXCEPT !.row = id]

(***************************************************************************)
(* TokenType and its wire codes.                                           *)
(***************************************************************************)
TokenType == {"Access", "Refresh", "SignIn"}

u8_from(token_type) ==
    CASE token_type = "Access" -> 0
      [] token_type = "Refresh" -> 1
      [] token_type = "SignIn" -> 2

\* try_from with an unknown code taken for the first kind.
try_from_default(value) ==
    CASE value = 1 -> [ok |-> TRUE, typ |-> "Refresh", v |-> value]
      [] value = 2 -> [ok |-> TRUE, typ |-> "SignIn", v |-> value]
      [] OTHER -> [ok |-> TRUE, typ |-> "Access", v |-> value]

try_from(value) ==
    CASE value = 0 -> [ok |-> TRUE, typ |-> "Access", v |-> value]
      [] value = 1 -> [ok |-> TRUE, typ |-> "Refresh", v |-> value]
      [] value = 2 -> [ok |-> TRUE, typ |-> "SignIn", v |-> value]
      [] OTHER -> [ok |-> FALSE, typ |-> "", v |-> value]

(***************************************************************************)
(* serde_json on TokenClaims: members are written in declaration order;    *)
(* reading accepts them in any order, ignores unknown members, and rejects *)
(* a missing or repeated member and a typ outside u8.                      *)
(***************************************************************************)
NumKeys == {"exp", "uid", "typ", "slt"}
StrKeys == {"eml", "cur"}

to_vec(c) ==
    <<Sym("{", 0), Sym("exp", c.exp), Sym("uid", c.uid), Sym("eml", 0), Sym("q", 0)>>
    \o c.eml
    \o <<Sym("q", 0), Sym("cur", 0), Sym("q", 0)>>
    \o c.cur
    \o <<Sym("q", 0), Sym("typ", c.typ), Sym("slt", c.slt), Sym("}", 0)>>

RECURSIVE CloseQuote(_, _)
CloseQuote(s, i) ==
    IF i > Len(s) THEN 0
    ELSE IF s[i].k = "q" THEN i
    ELSE IF s[i].k = "chr" THEN CloseQuote(s, i + 1)
    ELSE 0

RECURSIVE ParseMembers(_, _, _, _)
ParseMembers(s, i, seen, c) ==
    IF i > Len(s) THEN Err("TokenInvalid")
    ELSE IF s[i].k = "}"
        THEN IF i = Len(s) /\ seen = NumKeys \cup StrKeys THEN Ok(c) ELSE Err("TokenInvalid")
    ELSE IF s[i].k = "xtr" THEN ParseMembers(s, i + 1, seen, c)
    ELSE IF s[i].k \in NumKeys
        THEN IF s[i].k \in seen \/ s[i].v < 0 \/ (s[i].k = "typ" /\ s[i].v > U8Max)
             THEN Err("TokenInvalid")
             ELSE ParseMembers(s, i + 1, seen \cup {s[i].k}, [c EXCEPT ![s[i].k] = s[i].v])
    ELSE IF s[i].k \in StrKeys
        THEN IF s[i].k \in seen \/ i + 1 > Len(s) \/ s[i + 1].k # "q"
             THEN Err("TokenInvalid")
             ELSE LET j == CloseQuote(s, i + 2)
                  IN IF j = 0 THEN Err("TokenInvalid")
                     ELSE ParseMembers(s, j + 1, seen \cup {s[i].k},
                                       [c EXCEPT ![s[i].k] = SubSeq(s, i + 2, j - 1)])
    ELSE Err("TokenInvalid")

from_str(s) ==
    IF Len(s) = 0 \/ s[1].k # "{" THEN Err("TokenInvalid")
    ELSE ParseMembers(s, 2, {}, NoClaims)

(***************************************************************************)
(* HMAC-SHA256, hex and base64url without padding.                         *)
(***************************************************************************)
Hmac(key, msg) == [k |-> "mac", v |-> key, m |-> msg]

hex_encode(mac) == <<[mac EXCEPT !.k = "hex"]>>

\* hex_decode that takes every character for a digit.
hex_decode_lossy(hash_str) ==
    [ok |-> TRUE, bytes |-> [i \in 1..Len(hash_str) |-> [hash_str[i] EXCEPT !.k = "mac"]]]

hex_decode(hash_str) ==
    IF \A i \in 1..Len(hash_str) : hash_str[i].k \in {"hex", "HEX"}
    THEN [ok |-> TRUE, bytes |-> [i \in 1..Len(hash_str) |-> [hash_str[i] EXCEPT !.k = "mac"]]]
    ELSE [ok |-> FALSE, bytes |-> <<>>]

\* verify_slice that does not use the key.
verify_slice_any_key(key, msg, hash) ==
    Len(hash) = 1 /\ hash[1].k = "mac" /\ hash[1].m = msg

verify_slice(key, msg, hash) == hash = <<Hmac(key, msg)>>

base64_encode_config(bytes) == [b64 |-> TRUE, bytes |-> bytes]

base64_decode_config(token) ==
    IF token.b64 THEN [ok |-> TRUE, bytes |-> token.bytes]
    ELSE [ok |-> FALSE, bytes |-> <<>>]

(***************************************************************************)
(* TokenClaims: create_token and the two decode modes.                     *)
(***************************************************************************)
IsPipe(x) == x.k = "chr" /\ x.v = Pipe

create_token(c, key) ==
    LET claims_and_hash == to_vec(c)
        hash == hex_encode(Hmac(key, claims_and_hash))
    IN base64_encode_config(Append(claims_and_hash, Chr(Pipe)) \o hash)

\* str::split('|'): the parts between the delimiters, in order (never empty).
RECURSIVE split(_)
split(s) ==
    IF \A i \in 1..Len(s) : ~IsPipe(s[i]) THEN <<s>>
    ELSE LET p == CHOOSE i \in 1..Len(s) :
                      IsPipe(s[i]) /\ \A j \in 1..(i - 1) : ~IsPipe(s[j])
         IN <<SubSeq(s, 1, p - 1)>> \o split(SubSeq(s, p + 1, Len(s)))

RECURSIVE Concat(_)
Concat(parts) ==
    IF parts = <<>> THEN <<>> ELSE Head(parts) \o Concat(Tail(parts))

token_to_claims_and_hash(token) ==
    LET decoded_token == base64_decode_config(token)
        split_token == split(decoded_token.bytes)
        claims_json_str == Concat(SubSeq(split_token, 1, Len(split_token) - 1))
        hash_str == split_token[Len(split_token)]
        claims == from_str(claims_json_str)
        hash == hex_decode(hash_str)
        bad == [ok |-> FALSE, claims |-> NoClaims, claims_json_str |-> <<>>, hash |-> <<>>]
    IN IF ~decoded_token.ok THEN bad
       ELSE IF ~claims.ok THEN bad
       ELSE IF ~hash.ok THEN bad
       ELSE [ok |-> TRUE, claims |-> claims.claims,
             claims_json_str |-> claims_json_str, hash |-> hash.bytes]

\* from_token_with_validation without the MAC comparison.
from_token_with_validation_unverified(token, key, now) ==
    LET d == token_to_claims_and_hash(token)
    IN IF ~d.ok THEN Err("TokenInvalid")
       ELSE IF now < 0 THEN Err("SystemResourceAccessFailure")
       ELSE IF now >= d.claims.exp THEN Err("TokenExpired")
       ELSE Ok(d.claims)

\* from_token_with_validation accepting a token in the second it expires.
from_token_with_validation_late(token, key, now) ==
    LET d == token_to_claims_and_hash(token)
    IN IF ~d.ok THEN Err("TokenInvalid")
       ELSE IF now < 0 THEN Err("SystemResourceAccessFailure")
       ELSE IF now > d.claims.exp THEN Err("TokenExpired")
       ELSE IF verify_slice(key, d.claims_json_str, d.hash) THEN Ok(d.claims)
       ELSE Err("TokenInvalid")

\* now < 0 stands for a system clock set before the UNIX epoch.
from_token_with_validation(token, key, now) ==
    LET d == token_to_claims_and_hash(token)
    IN IF ~d.ok THEN Err("TokenInvalid")
       ELSE IF now < 0 THEN Err("SystemResourceAccessFailure")
       ELSE IF now >= d.claims.exp THEN Err("TokenExpired")
       ELSE IF verify_slice(key, d.claims_json_str, d.hash) THEN Ok(d.claims)
       ELSE Err("TokenInvalid")

from_token_without_validation(token) ==
    LET d == token_to_claims_and_hash(token)
    IN IF d.ok THEN Ok(d.claims) ELSE Err("TokenInvalid")

\* validate_token that refuses a token with a row in the blacklist.
validate_token_listed(token, token_type, now) ==
    LET decoded_token == from_token_with_validation(token, token_signing_key, now)
        token_type_claim == try_from(decoded_token.claims.typ)
    IN IF \E r \in blacklisted_tokens : r.token = token THEN Err("TokenBlacklisted")
       ELSE IF ~decoded_token.ok THEN decoded_token
       ELSE IF ~token_type_claim.ok THEN InvalidTokenType(token_type_claim.v)
       ELSE IF token_type_claim.typ # token_type THEN Err("WrongTokenType")
       ELSE decoded_token

validate_token(token, token_type, now) ==
    LET decoded_token == from_token_with_validation(token, token_signing_key, now)
        token_type_claim == try_from(decoded_token.claims.typ)
    IN IF ~decoded_token.ok THEN decoded_token
       ELSE IF ~token_type_claim.ok THEN InvalidTokenType(token_type_claim.v)
       ELSE IF token_type_claim.typ # token_type THEN Err("WrongTokenType")
       ELSE decoded_token

validate_access_token(token, now) == validate_token(token, "Access", now)

validate_signin_token(token, now) == validate_token(token, "SignIn", now)

(***************************************************************************)
(* What a holder of a transport string can do to it without the key.       *)
(***************************************************************************)
ReplaceAt(s, i, x) == [s EXCEPT ![i] = x]
InsertAt(s, i, x) == SubSeq(s, 1, i - 1) \o <<x>> \o SubSeq(s, i, Len(s))
IndexOf(s, k) == CHOOSE i \in 1..Len(s) : s[i].k = k

Tampers ==
    {"exp_past", "exp_later", "typ", "resign", "upper_hex", "pipe",
     "garbage_mac", "empty_mac", "no_delimiter", "not_base64", "no_exp"}

\* Changes of the members of the claims text: a member serde does not know,
\* a typ above u8, a negative exp, exp twice, no exp.
ClaimsTampers == {"extra_member", "typ_range", "exp_negative", "dup_member", "no_exp"}

\* The buffer of a token made by create_token, changed in one of the ways above.
Tamper(token, how, other_key) ==
    LET b == token.bytes
        n == Len(b)
        e == IndexOf(b, "exp")
        t == IndexOf(b, "typ")
    IN CASE how = "exp_past" -> base64_encode_config(ReplaceAt(b, e, Sym("exp", 0)))
         [] how = "exp_later" -> base64_encode_config(ReplaceAt(b, e, Sym("exp", b[e].v + 1)))
         [] how = "typ" -> base64_encode_config(ReplaceAt(b, t, Sym("typ", (b[t].v + 1) % 4)))
         [] how = "resign" -> base64_encode_config(ReplaceAt(b, n, [b[n] EXCEPT !.v = other_key]))
         [] how = "upper_hex" -> base64_encode_config(ReplaceAt(b, n, [b[n] EXCEPT !.k = "HEX"]))
         [] how = "pipe" -> base64_encode_config(InsertAt(b, 2, Chr(Pipe)))
         [] how = "garbage_mac" -> base64_encode_config(ReplaceAt(b, n, Chr(Pipe + 1)))
         [] how = "empty_mac" -> base64_encode_config(SubSeq(b, 1, n - 1))
         [] how = "no_delimiter" -> base64_encode_config(SelectSeq(b, LAMBDA x : ~IsPipe(x)))
         [] how = "not_base64" -> [token EXCEPT !.b64 = FALSE]
         [] how = "no_exp" -> base64_encode_config(SubSeq(b, 1, e - 1) \o SubSeq(b, e + 1, n))
         [] how = "extra_member" -> base64_encode_config(InsertAt(b, 2, Sym("xtr", 0)))
         [] how = "typ_range" -> base64_encode_config(ReplaceAt(b, t, Sym("typ", U8Max + 1)))
         [] how = "exp_negative" -> base64_encode_config(ReplaceAt(b, e, Sym("exp", -1)))
         [] how = "dup_member" -> base64_encode_config(InsertAt(b, e, b[e]))

(***************************************************************************)
(* State.  clock: the system clock in seconds since the epoch (-1: before  *)
(* it).  blacklisted_tokens: the rows of the table.  issued: the tokens    *)
(* generate_token has returned (kind: the kind asked for, token_type: the  *)
(* field of the Token returned, at: the second of issuance).  tok: the transport string in hand, with   *)
(* the claims and key it was created from.  out: the last call and its     *)
(* result.  security: the thresholds configured.  otp_attempts and        *)
(* password_attempts: the row of each user in the two tables.  calls: the  *)
(* last call of the throttle.  pending: each handler's place in             *)
(* record_failure, and the number of calls started.                        *)
(***************************************************************************)
Currencies == {s \in Strs : Len(s) = 1}

ClaimsDom ==
    [exp : 0..(MaxTime + 1), uid : {1}, eml : Strs, cur : Currencies, typ : TypCodes, slt : {1}]

NoTok == [token |-> base64_encode_config(<<>>), c |-> NoClaims, key |-> 0, how |-> "none"]

\* tok2: the second token of a call that returns two; rows: the table before
\* the call.
Out(op, t, key, kind, res) ==
    [op |-> op, tok |-> t, tok2 |-> NoTok, key |-> key, kind |-> kind, now |-> clock,
     db |-> "", rows |-> blacklisted_tokens, res |-> res]

\* The lifetimes section of the configuration file: no value is refused.
LifetimeValues == {0, 1, 2}

Lifetimes ==
    [access_token_lifetime_mins : LifetimeValues,
     refresh_token_lifetime_days : LifetimeValues,
     otp_lifetime_mins : LifetimeValues]

\* A configuration with every lifetime positive.
UsualLifetimes ==
    [access_token_lifetime_mins |-> 1, refresh_token_lifetime_days |-> 1, otp_lifetime_mins |-> 1]

\* The security section of the configuration file (i16 values).
Security ==
    {[otp_max_attempts |-> o, otp_attempts_reset_mins |-> 1,
      password_max_attempts |-> p, password_attempts_reset_mins |-> 1] :
        <<o, p>> \in {<<0, 2>>, <<1, 2>>, <<2, 1>>}}

UsualSecurity ==
    [otp_max_attempts |-> 2, otp_attempts_reset_mins |-> 1,
     password_max_attempts |-> 1, password_attempts_reset_mins |-> 1]

\* A row of otp_attempts or password_attempts.  present: the user has a row;
\* elapsed: the reset window since the last reset of the counter is over.
NoRow == [present |-> FALSE, attempt_count |-> 0, elapsed |-> FALSE]
Row(attempt_count) == [present |-> TRUE, attempt_count |-> attempt_count, elapsed |-> FALSE]

\* n: the number of record_failure calls in a row for the user and kind,
\* counted from a user without row, within one window; before: the row
\* before the call.
Call(op, user_id, kind, count, n, before) ==
    [op |-> op, user_id |-> user_id, kind |-> kind, count |-> count, n |-> n,
     before |-> before]

\* The request handlers that run record_failure at the same time.
Procs == {1, 2}

\* A handler between two calls (seen: the row its last call read) and one
\* that has read the row and not yet written.
Idle(user_id, kind, seen) ==
    [busy |-> FALSE, user_id |-> user_id, kind |-> kind, seen |-> seen]
Reading(user_id, kind, seen) ==
    [busy |-> TRUE, user_id |-> user_id, kind |-> kind, seen |-> seen]

\* No call is remembered.
NoLog ==
    [op |-> "none", tok |-> NoTok, tok2 |-> NoTok, key |-> 0, kind |-> "", now |-> 0,
     db |-> "", rows |-> {}, res |-> Err("")]

\* No error is being formatted.
NoDisplay ==
    [self |-> [variant |-> "", v |-> 0], status |-> "idle", frames |-> 0, text |-> <<>>]

Init ==
    /\ clock \in {-1, 0}
    /\ conf \in Lifetimes
    /\ blacklisted_tokens = {}
    /\ issued = {}
    /\ tok = NoTok
    /\ out = Out("none", NoTok, 0, "", Err(""))
    /\ security \in Security
    /\ otp_attempts = [u \in Uids |-> NoRow]
    /\ password_attempts = [u \in Uids |-> NoRow]
    /\ calls = Call("none", 0, "", 0, 0, NoRow)
    /\ pending = [procs |-> [p \in Procs |-> Idle(0, "", NoRow)], started |-> 0]
    /\ display = NoDisplay
    /\ log = NoLog

\* The start of the token operations under the usual configuration,
UsualInit == Init /\ conf = UsualLifetimes /\ security = UsualSecurity

\* of issuance under every configuration of the lifetimes,
IssueInit == Init /\ security = UsualSecurity

\* and of the throttle under every configuration of the thresholds.
ThrottleInit == Init /\ conf = UsualLifetimes /\ clock = 0

Tick ==
    /\ clock < MaxTime
    /\ clock' = clock + 1
    /\ out' = [Out("tick", NoTok, 0, "", Err("")) EXCEPT !.now = clock + 1]
    /\ UNCHANGED <<display, log, throttle, conf, blacklisted_tokens, issued, tok>>

CreateToken ==
    \E c \in ClaimsDom, key \in Keys :
        /\ tok.how = "none"
        /\ tok' = [token |-> create_token(c, key), c |-> c, key |-> key, how |-> "create_token"]
        /\ out' = Out("create_token", tok', key, "", Ok(c))
        /\ UNCHANGED <<display, log, throttle, clock, conf, blacklisted_tokens, issued>>

TamperToken ==
    \E how \in Tampers, other_key \in Keys :
        /\ tok.how = "create_token"
        /\ other_key # tok.key
        /\ tok' = [tok EXCEPT !.token = Tamper(tok.token, how, other_key), !.how = how]
        /\ out' = Out("tamper", tok', 0, "", Err(""))
        /\ UNCHANGED <<display, log, throttle, clock, conf, blacklisted_tokens, issued>>

DecodeWithValidation ==
    \E key \in Keys :
        /\ tok.how # "none"
        /\ out' = Out("from_token_with_validation", tok, key, "",
                       from_token_with_validation(tok.token, key, clock))
        /\ UNCHANGED <<display, log, throttle, clock, conf, blacklisted_tokens, issued, tok>>

DecodeWithoutValidation ==
    /\ tok.how # "none"
    /\ out' = Out("from_token_without_validation", tok, 0, "",
                   from_token_without_validation(tok.token))
    /\ UNCHANGED <<display, log, throttle, clock, conf, blacklisted_tokens, issued, tok>>

ValidateToken ==
    \E token_type \in TokenType :
        /\ tok.how # "none"
        /\ out' = Out("validate_token", tok, token_signing_key, token_type,
                       validate_token(tok.token, token_type, clock))
        /\ UNCHANGED <<display, log, throttle, clock, conf, blacklisted_tokens, issued, tok>>

TamperClaims ==
    \E how \in ClaimsTampers :
        /\ tok.how = "create_token"
        /\ tok' = [tok EXCEPT !.token = Tamper(tok.token, how, tok.key), !.how = how]
        /\ out' = Out("tamper", tok', 0, "", Err(""))
        /\ UNCHANGED <<display, log, throttle, clock, conf, blacklisted_tokens, issued>>

CodecNext ==
    \/ Tick
    \/ CreateToken
    \/ TamperToken
    \/ DecodeWithValidation
    \/ DecodeWithoutValidation
    \/ ValidateToken

CodecSpec == UsualInit /\ [][CodecNext]_vars

\* The two decode modes on claims texts with changed members.
StrictNext ==
    \/ CreateToken
    \/ TamperClaims
    \/ DecodeWithValidation
    \/ DecodeWithoutValidation

StrictSpec == UsualInit /\ [][StrictNext]_vars

(***************************************************************************)
(* Issuance, the blacklist table and refresh validation.                   *)
(***************************************************************************)
\* The integers of the model are 32 bits wide: I64Max stands for 2^63 - 1 and
\* I64Max + 1 for the u64 values above it.
I64Max == 1073741823

Subjects ==
    {[user_id |-> 1, user_email |-> Str(<<117>>), user_currency |-> Str(<<117>>)],
     [user_id |-> 2, user_email |-> Str(<<117, Pipe, 117>>), user_currency |-> Str(<<117>>)]}

\* generate_token that does not put the salt drawn into the claims.
generate_token_fixed_salt(params, token_type, now, salt) ==
    LET lifetime_sec ==
            CASE token_type = "Access" -> conf.access_token_lifetime_mins * 60
              [] token_type = "Refresh" -> conf.refresh_token_lifetime_days * 24 * 60 * 60
              [] token_type = "SignIn" -> conf.otp_lifetime_mins * 60 * 2
        claims == [exp |-> now + lifetime_sec, uid |-> params.user_id,
                   eml |-> params.user_email, cur |-> params.user_currency,
                   typ |-> u8_from(token_type), slt |-> 1]
    IN IF now < 0
       THEN [res |-> Err("SystemResourceAccessFailure"), token |-> base64_encode_config(<<>>),
             token_type |-> token_type]
       ELSE [res |-> Ok(claims), token |-> create_token(claims, token_signing_key),
             token_type |-> token_type]

\* generate_token giving a sign-in token the lifetime of one passcode.
generate_token_undoubled(params, token_type, now, salt) ==
    LET lifetime_sec ==
            CASE token_type = "Access" -> conf.access_token_lifetime_mins * 60
              [] token_type = "Refresh" -> conf.refresh_token_lifetime_days * 24 * 60 * 60
              [] token_type = "SignIn" -> conf.otp_lifetime_mins * 60
        claims == [exp |-> now + lifetime_sec, uid |-> params.user_id,
                   eml |-> params.user_email, cur |-> params.user_currency,
                   typ |-> u8_from(token_type), slt |-> salt]
    IN IF now < 0
       THEN [res |-> Err("SystemResourceAccessFailure"), token |-> base64_encode_config(<<>>),
             token_type |-> token_type]
       ELSE [res |-> Ok(claims), token |-> create_token(claims, token_signing_key),
             token_type |-> token_type]

\* salt is the value rand::thread_rng().gen_range(1..u32::MAX) returns.
generate_token(params, token_type, now, salt) ==
    LET lifetime_sec ==
            CASE token_type = "Access" -> conf.access_token_lifetime_mins * 60
              [] token_type = "Refresh" -> conf.refresh_token_lifetime_days * 24 * 60 * 60
              [] token_type = "SignIn" -> conf.otp_lifetime_mins * 60 * 2
        expiration == now + lifetime_sec
        claims == [exp |-> expiration, uid |-> params.user_id, eml |-> params.user_email,
                   cur |-> params.user_currency, typ |-> u8_from(token_type), slt |-> salt]
    IN IF now < 0
       THEN [res |-> Err("SystemResourceAccessFailure"), token |-> base64_encode_config(<<>>),
             token_type |-> token_type]
       ELSE [res |-> Ok(claims), token |-> create_token(claims, token_signing_key),
             token_type |-> token_type]

generate_access_token(params, now, salt) == generate_token(params, "Access", now, salt)

generate_refresh_token(params, now, salt) == generate_token(params, "Refresh", now, salt)

generate_signin_token(params, now, salt) == generate_token(params, "SignIn", now, salt)

\* Token: the two private fields and the three tests of the kind.
is_access_token(t) == t.token_type = "Access"

is_refresh_token(t) == t.token_type = "Refresh"

is_signin_token(t) == t.token_type = "SignIn"

\* The clock is read once for each token: now_a, then now_r.
generate_token_pair(params, now_a, salt_a, now_r, salt_r) ==
    LET access_token == generate_access_token(params, now_a, salt_a)
        refresh_token == generate_refresh_token(params, now_r, salt_r)
        none == [res |-> Err(""), token |-> base64_encode_config(<<>>), token_type |-> ""]
    IN IF ~access_token.res.ok
       THEN [res |-> access_token.res, access_token |-> none, refresh_token |-> none]
       ELSE IF ~refresh_token.res.ok
       THEN [res |-> refresh_token.res, access_token |-> none, refresh_token |-> none]
       ELSE [res |-> Ok(NoClaims), access_token |-> access_token,
             refresh_token |-> refresh_token]

\* The answer of the store to the query of is_on_blacklist: a row, NotFound,
\* or another error when the store cannot be reached (db = "down").
get_result(token, db) ==
    IF db = "down" THEN "Error"
    ELSE IF \E r \in blacklisted_tokens : r.token = token THEN "Row"
    ELSE "NotFound"

\* is_on_blacklist that passes the error of the store on.
is_on_blacklist_strict(token, db) ==
    IF get_result(token, db) = "Row" THEN OkBool(TRUE)
    ELSE IF get_result(token, db) = "NotFound" THEN OkBool(FALSE)
    ELSE Err("DatabaseError")

is_on_blacklist(token, db) ==
    IF get_result(token, db) = "Row" THEN OkBool(TRUE) ELSE OkBool(FALSE)

validate_refresh_token(token, db, now) ==
    LET listed == is_on_blacklist(token, db)
    IN IF ~listed.ok THEN listed
       ELSE IF listed.is THEN Err("TokenBlacklisted")
       ELSE validate_token(token, "Refresh", now)

\* The row of blacklist_token without the user the token names.
NewBlacklistedToken_without_user(token) ==
    LET decoded_token == from_token_without_validation(token)
    IN [id |-> Cardinality(blacklisted_tokens) + 1,
        token |-> token,
        user_id |-> 0,
        token_expiration_time |-> decoded_token.claims.exp]

\* The row blacklist_token inserts; the table assigns the next id.
NewBlacklistedToken(token) ==
    LET decoded_token == from_token_without_validation(token)
    IN [id |-> Cardinality(blacklisted_tokens) + 1,
        token |-> token,
        user_id |-> decoded_token.claims.uid,
        token_expiration_time |-> decoded_token.claims.exp]

\* blacklist_token that stores the expiration without the conversion to i64.
blacklist_token_unconverted(token, db) ==
    LET decoded_token == from_token_without_validation(token)
    IN IF ~decoded_token.ok THEN Err("TokenInvalid")
       ELSE IF db = "down" THEN Err("DatabaseError")
       ELSE OkRow(NewBlacklistedToken(token).id)

blacklist_token(token, db) ==
    LET decoded_token == from_token_without_validation(token)
    IN IF ~decoded_token.ok THEN Err("TokenInvalid")
       ELSE IF decoded_token.claims.exp > I64Max THEN Err("TokenInvalid")
       ELSE IF db = "down" THEN Err("DatabaseError")
       ELSE OkRow(NewBlacklistedToken(token).id)

\* The tokens a client presents: those generate_token has returned.
Held == {[token |-> i.token, c |-> i.c, key |-> token_signing_key, how |-> "generate_token"] :
            i \in issued}

GenerateToken ==
    \E params \in Subjects, token_type \in TokenType, salt \in Salts :
        LET t == generate_token(params, token_type, clock, salt)
            h == [token |-> t.token, c |-> t.res.claims, key |-> token_signing_key,
                  how |-> "generate_token"]
        IN /\ Cardinality(issued) < MaxIssued
           /\ clock <= MaxTime
           /\ issued' = IF t.res.ok
                         THEN issued \cup {[n |-> Cardinality(issued) + 1, token |-> t.token,
                                            kind |-> token_type,
                                            token_type |-> t.token_type, c |-> t.res.claims,
                                            params |-> params, salt |-> salt, at |-> clock]}
                         ELSE issued
           /\ out' = Out("generate_token", h, token_signing_key, token_type, t.res)
           /\ UNCHANGED <<display, log, throttle, clock, conf, blacklisted_tokens, tok>>

\* The second hand may move between the two readings of the clock.
GenerateTokenPair ==
    \E params \in Subjects, salt_a \in Salts, salt_r \in Salts, now_r \in {clock, clock + 1} :
        LET p == generate_token_pair(params, clock, salt_a, now_r, salt_r)
            a == [token |-> p.access_token.token, c |-> p.access_token.res.claims,
                  key |-> token_signing_key, how |-> "generate_token"]
            r == [token |-> p.refresh_token.token, c |-> p.refresh_token.res.claims,
                  key |-> token_signing_key, how |-> "generate_token"]
            n == Cardinality(issued)
        IN /\ n + 2 <= MaxIssued
           /\ now_r <= MaxTime
           /\ clock' = now_r
           /\ issued' = IF p.res.ok
                         THEN issued \cup
                              {[n |-> n + 1, token |-> a.token, kind |-> "Access",
                                token_type |-> p.access_token.token_type,
                                c |-> a.c, params |-> params, salt |-> salt_a, at |-> clock],
                               [n |-> n + 2, token |-> r.token, kind |-> "Refresh",
                                token_type |-> p.refresh_token.token_type,
                                c |-> r.c, params |-> params, salt |-> salt_r, at |-> now_r]}
                         ELSE issued
           /\ out' = [Out("generate_token_pair", a, token_signing_key, "", p.res)
                          EXCEPT !.tok2 = r]
           /\ UNCHANGED <<display, log, throttle, conf, blacklisted_tokens, tok>>

Expire ==
    \E i \in issued :
        /\ clock < i.c.exp
        /\ clock' = i.c.exp
        /\ out' = [Out("tick", NoTok, 0, "", Err("")) EXCEPT !.now = i.c.exp]
        /\ UNCHANGED <<display, log, throttle, conf, blacklisted_tokens, issued, tok>>

ValidateAccessToken ==
    \E h \in Held :
        /\ out' = Out("validate_access_token", h, token_signing_key, "Access",
                       validate_access_token(h.token, clock))
        /\ UNCHANGED <<display, log, throttle, clock, conf, blacklisted_tokens, issued, tok>>

ValidateSigninToken ==
    \E h \in Held :
        /\ out' = Out("validate_signin_token", h, token_signing_key, "SignIn",
                       validate_signin_token(h.token, clock))
        /\ UNCHANGED <<display, log, throttle, clock, conf, blacklisted_tokens, issued, tok>>

\* A string a client made itself, if it has made one.
Presented == IF tok.how = "none" THEN {} ELSE {tok}

ValidateRefreshToken ==
    \E h \in Held \cup Presented, db \in {"up", "down"} :
        /\ out' = [Out("validate_refresh_token", h, token_signing_key, "Refresh",
                        validate_refresh_token(h.token, db, clock)) EXCEPT !.db = db]
        /\ UNCHANGED <<display, log, throttle, clock, conf, blacklisted_tokens, issued, tok>>

IsOnBlacklist ==
    \E h \in Held, db \in {"up", "down"} :
        /\ out' = [Out("is_on_blacklist", h, 0, "", is_on_blacklist(h.token, db))
                       EXCEPT !.db = db]
        /\ UNCHANGED <<display, log, throttle, clock, conf, blacklisted_tokens, issued, tok>>

\* Claims with an expiration at and above the largest i64.
LargeClaims ==
    [exp : {I64Max, I64Max + 1}, uid : {1}, eml : {Str(<<117>>)}, cur : {Str(<<117>>)},
     typ : {1}, slt : {1}]

\* blacklist_token decodes without validation: any client can make a string
\* with claims of its choice.
CraftToken ==
    \E c \in LargeClaims, key \in Keys :
        /\ tok.how = "none"
        /\ tok' = [token |-> create_token(c, key), c |-> c, key |-> key, how |-> "create_token"]
        /\ out' = Out("create_token", tok', key, "", Ok(c))
        /\ UNCHANGED <<display, log, throttle, clock, conf, blacklisted_tokens, issued>>

BlacklistToken ==
    \E h \in Held \cup Presented, db \in {"up", "down"} :
        LET res == blacklist_token(h.token, db)
        IN /\ Cardinality(blacklisted_tokens) < MaxRows
           /\ blacklisted_tokens' = IF res.ok
                                     THEN blacklisted_tokens \cup {NewBlacklistedToken(h.token)}
                                     ELSE blacklisted_tokens
           /\ out' = [Out("blacklist_token", h, 0, "", res) EXCEPT !.db = db]
           /\ UNCHANGED <<display, log, throttle, clock, conf, issued, tok>>

Next ==
    \/ Tick
    \/ Expire
    \/ GenerateToken
    \/ GenerateTokenPair
    \/ ValidateAccessToken
    \/ ValidateSigninToken
    \/ ValidateRefreshToken
    \/ IsOnBlacklist
    \/ BlacklistToken

Spec == UsualInit /\ [][Next]_vars

\* Issuance alone, under every configuration of the lifetimes.
IssueNext ==
    \/ Tick
    \/ GenerateToken
    \/ GenerateTokenPair

IssueSpec == IssueInit /\ [][IssueNext]_vars

\* The lookup in the table, for the tokens of a pair.
LookupNext ==
    \/ Tick
    \/ GenerateTokenPair
    \/ BlacklistToken
    \/ IsOnBlacklist
    \/ ValidateRefreshToken

LookupSpec == UsualInit /\ [][LookupNext]_vars

\* blacklist_token on the strings a client can make.
RevokeNext ==
    \/ CreateToken
    \/ CraftToken
    \/ TamperToken
    \/ BlacklistToken

RevokeSpec == UsualInit /\ [][RevokeNext]_vars

\* The validators that take no connection to the store.
StoreFree == {"validate_access_token", "validate_signin_token"}

\* History: log keeps the record of one call of such a validator, with the
\* table the call was made at, while the table goes on changing.
Remember ==
    /\ log.op = "none"
    /\ out.op \in StoreFree
    /\ log' = out
    /\ UNCHANGED <<display, throttle, clock, conf, blacklisted_tokens, issued, tok, out>>

\* The operations on the tokens of a pair issued (generate_token_pair calls
\* generate_token for both), at one second.
IsolationNext ==
    \/ GenerateTokenPair
    \/ ValidateAccessToken
    \/ ValidateSigninToken
    \/ ValidateRefreshToken
    \/ IsOnBlacklist
    \/ BlacklistToken
    \/ Remember

IsolationSpec == UsualInit /\ [][IsolationNext]_vars

\* Validation of the strings a client can derive from a token it holds,
\* before and after the token was blacklisted.
DeriveNext ==
    \/ CreateToken
    \/ TamperToken
    \/ BlacklistToken
    \/ DecodeWithValidation
    \/ ValidateRefreshToken

DeriveSpec == UsualInit /\ [][DeriveNext]_vars

(***************************************************************************)
(* The attempt throttle.                                                   *)
(***************************************************************************)
AttemptKinds == {"password", "otp"}

Table(kind) == IF kind = "otp" THEN otp_attempts ELSE password_attempts

max_attempts(kind) ==
    IF kind = "otp" THEN security.otp_max_attempts ELSE security.password_max_attempts

\* record_failure that counts the first failure as one.
record_failure_from_one(row) ==
    IF ~row.present THEN Row(1)
    ELSE IF row.elapsed THEN Row(1)
    ELSE Row(row.attempt_count + 1)

\* record_failure that takes no notice of the window.
record_failure_no_window(row) ==
    IF ~row.present THEN Row(0) ELSE Row(row.attempt_count + 1)

\* The row record_failure leaves: a zero row for a user without row, a count
\* of 1 when the window is over, the count plus 1 otherwise.
record_failure(row) ==
    IF ~row.present THEN Row(0)
    ELSE IF row.elapsed THEN Row(1)
    ELSE Row(row.attempt_count + 1)

is_locked(user_id, kind) == Table(kind)[user_id].attempt_count >= max_attempts(kind)

\* reset that leaves the count.
reset_window_only(row) == IF row.present THEN [row EXCEPT !.elapsed = FALSE] ELSE row

\* The row reset leaves: the counter at zero, its window started anew.
reset(row) == IF row.present THEN Row(0) ELSE row

\* A write that reaches both tables.
Store_both(kind, t) == otp_attempts' = t /\ password_attempts' = t

\* The table of the kind becomes t, the other table stays.
Store(kind, t) ==
    IF kind = "otp"
    THEN otp_attempts' = t /\ UNCHANGED password_attempts
    ELSE password_attempts' = t /\ UNCHANGED otp_attempts

RecordFailure ==
    \E user_id \in Uids, kind \in AttemptKinds :
        LET before == Table(kind)[user_id]
            after == record_failure(before)
            n == IF ~before.present THEN 1
                 ELSE IF /\ calls.op = "record_failure"
                         /\ calls.user_id = user_id
                         /\ calls.kind = kind
                         /\ calls.n >= 1
                         /\ ~before.elapsed
                 THEN calls.n + 1
                 ELSE 0
        IN /\ after.attempt_count <= MaxCount
           /\ Store(kind, [Table(kind) EXCEPT ![user_id] = after])
           /\ calls' = Call("record_failure", user_id, kind, after.attempt_count, n, before)
           /\ UNCHANGED <<display, log, clock, conf, blacklisted_tokens, issued, tok, out, security, pending>>

IsLocked ==
    \E user_id \in Uids, kind \in AttemptKinds :
        /\ calls' = Call("is_locked", user_id, kind,
                          IF is_locked(user_id, kind) THEN 1 ELSE 0, 0, Table(kind)[user_id])
        /\ UNCHANGED <<display, log, clock, conf, blacklisted_tokens, issued, tok, out, security,
                       otp_attempts, password_attempts, pending>>

Reset ==
    \E user_id \in Uids, kind \in AttemptKinds :
        LET before == Table(kind)[user_id]
        IN /\ Store(kind, [Table(kind) EXCEPT ![user_id] = reset(before)])
           /\ calls' = Call("reset", user_id, kind, 0, 0, before)
           /\ UNCHANGED <<display, log, clock, conf, blacklisted_tokens, issued, tok, out, security, pending>>

\* The window of a counter runs out.
WindowElapses ==
    \E user_id \in Uids, kind \in AttemptKinds :
        LET before == Table(kind)[user_id]
        IN /\ before.present
           /\ ~before.elapsed
           /\ Store(kind, [Table(kind) EXCEPT ![user_id] = [before EXCEPT !.elapsed = TRUE]])
           /\ calls' = Call("elapse", user_id, kind, 0, 0, before)
           /\ UNCHANGED <<display, log, clock, conf, blacklisted_tokens, issued, tok, out, security, pending>>

ThrottleNext ==
    \/ RecordFailure
    \/ IsLocked
    \/ Reset
    \/ WindowElapses

ThrottleSpec == ThrottleInit /\ [][ThrottleNext]_vars

\* record_failure as the two round trips to the store it is made of: the
\* read of the row,
RecordFailureRead ==
    \E p \in Procs, user_id \in Uids, kind \in AttemptKinds :
        /\ ~pending.procs[p].busy
        /\ pending.started < MaxCalls
        /\ pending' = [procs |-> [pending.procs EXCEPT
                                      ![p] = Reading(user_id, kind, Table(kind)[user_id])],
                       started |-> pending.started + 1]
        /\ UNCHANGED <<display, log, clock, conf, blacklisted_tokens, issued, tok, out, security,
                       otp_attempts, password_attempts, calls>>

\* A write that computes the count from the row as it is now.
RecordFailureWriteAtomic ==
    \E p \in Procs :
        LET r == pending.procs[p]
            after == record_failure(Table(r.kind)[r.user_id])
        IN /\ r.busy
           /\ after.attempt_count <= MaxCount
           /\ Store(r.kind, [Table(r.kind) EXCEPT ![r.user_id] = after])
           /\ calls' = Call("record_failure", r.user_id, r.kind, after.attempt_count, 0, r.seen)
           /\ pending' = [pending EXCEPT !.procs[p] = Idle(r.user_id, r.kind, r.seen)]
           /\ UNCHANGED <<display, log, clock, conf, blacklisted_tokens, issued, tok, out, security>>

\* and the write of the count computed from the row that was read.
RecordFailureWrite ==
    \E p \in Procs :
        LET r == pending.procs[p]
            after == record_failure(r.seen)
        IN /\ r.busy
           /\ after.attempt_count <= MaxCount
           /\ Store(r.kind, [Table(r.kind) EXCEPT ![r.user_id] = after])
           /\ calls' = Call("record_failure", r.user_id, r.kind, after.attempt_count, 0, r.seen)
           /\ pending' = [pending EXCEPT !.procs[p] = Idle(r.user_id, r.kind, r.seen)]
           /\ UNCHANGED <<display, log, clock, conf, blacklisted_tokens, issued, tok, out, security>>

RaceNext ==
    \/ RecordFailureRead
    \/ RecordFailureWrite
    \/ IsLocked

RaceSpec == ThrottleInit /\ [][RaceNext]_vars

(***************************************************************************)
(* impl fmt::Display for TokenError: the formatter as a stack of calls of  *)
(* fmt.  frames is the number of calls of fmt on the value that have not   *)
(* returned, text what has been written to the Formatter.                  *)
(***************************************************************************)
UnitVariants ==
    {"TokenInvalid", "TokenBlacklisted", "TokenExpired", "SystemResourceAccessFailure",
     "WrongTokenType"}

\* The values of TokenError: v is the u8 of NoMatchForValue inside
\* InvalidTokenType and the diesel error (1 NotFound, 2 another) inside
\* DatabaseError.
TokenError ==
    [variant : UnitVariants, v : {0}]
        \cup [variant : {"DatabaseError"}, v : {1, 2}]
        \cup [variant : {"InvalidTokenType"}, v : {x \in 0..U8Max : ~try_from(x).ok}]

Piece(s, v) == [s |-> s, v |-> v]

\* One call of fmt on self: what it writes, and whether the value it formats
\* with {} next is self again.
fmt(self) ==
    CASE self.variant = "DatabaseError" ->
            [text |-> <<Piece("DatabaseError: ", 0), Piece("diesel::result::Error", self.v)>>,
             self_again |-> FALSE]
      [] self.variant = "InvalidTokenType" ->
            [text |-> <<Piece("InvalidTokenType: ", 0), Piece("NoMatchForValue: ", self.v)>>,
             self_again |-> FALSE]
      [] OTHER -> [text |-> <<Piece("Error: ", 0)>>, self_again |-> TRUE]

\* The message a variant of its own would have.
Message(self) ==
    IF self.variant \in UnitVariants THEN <<Piece(self.variant, 0)>> ELSE fmt(self).text

\* A request handler formats the error of a result (to_string, {} in a log line).
Format ==
    \E self \in TokenError :
        /\ display.status # "running"
        /\ display' = [self |-> self, status |-> "running", frames |-> 1, text |-> <<>>]
        /\ UNCHANGED <<log, throttle, clock, conf, blacklisted_tokens, issued, tok, out>>

\* The innermost call of fmt runs: it writes and returns, or writes and calls
\* fmt on the same value; the call that finds no room for its frame on the
\* stack ends the process.
FmtStep ==
    /\ display.status = "running"
    /\ display' =
          IF ~fmt(display.self).self_again
          THEN [display EXCEPT !.text = @ \o fmt(display.self).text,
                               !.frames = 0, !.status = "returned"]
          ELSE IF display.frames < MaxFrames
          THEN [display EXCEPT !.text = @ \o fmt(display.self).text, !.frames = @ + 1]
          ELSE [display EXCEPT !.status = "stack overflow"]
    /\ UNCHANGED <<log, throttle, clock, conf, blacklisted_tokens, issued, tok, out>>

FmtNext == Format \/ FmtStep

FmtSpec == UsualInit /\ [][FmtNext]_vars

\* The formatter is not held up.
FairFmtSpec == FmtSpec /\ WF_vars(FmtStep)

(***************************************************************************)
(* Claims about the codec, checked under CodecSpec.                        *)
(***************************************************************************)
\* The claims text and MAC the decoder recovers from the token of the last call.
OutDecoded == token_to_claims_and_hash(out.tok.token)

\* The MAC the token carries is the HMAC under key of the claims text recovered.
MacMatches(key) ==
    OutDecoded.ok /\ OutDecoded.hash = <<Hmac(key, OutDecoded.claims_json_str)>>

C2_RoundTrip ==
    (/\ out.op = "from_token_with_validation"
     /\ out.tok.how = "create_token"
     /\ out.key = out.tok.key
     /\ 0 <= out.now
     /\ out.now < out.tok.c.exp)
    => out.res = Ok(out.tok.c)

HasPipe(str) == \E i \in 1..Len(str) : IsPipe(str[i])

\* C2, the part the code meets: the round trip of claims whose strings do not
\* contain the delimiter.
C2_RoundTripWithoutDelimiter ==
    (/\ out.op = "from_token_with_validation"
     /\ out.tok.how = "create_token"
     /\ out.key = out.tok.key
     /\ 0 <= out.now
     /\ out.now < out.tok.c.exp
     /\ ~HasPipe(out.tok.c.eml)
     /\ ~HasPipe(out.tok.c.cur))
    => out.res = Ok(out.tok.c)

\* C3: a token whose MAC matches its claims under the key fails with
\* TokenExpired exactly when clock >= exp, and is accepted before that.
C3_ExpirationBoundary ==
    (/\ out.op = "from_token_with_validation"
     /\ 0 <= out.now
     /\ MacMatches(out.key))
    => /\ out.now >= OutDecoded.claims.exp => out.res = Err("TokenExpired")
       /\ out.now < OutDecoded.claims.exp => out.res = Ok(OutDecoded.claims)

\* exp = now is refused,
C3_Witness ==
    /\ out.op = "from_token_with_validation"
    /\ MacMatches(out.key)
    /\ out.tok.how = "create_token"
    /\ out.now = OutDecoded.claims.exp
    /\ out.res = Err("TokenExpired")

\* and exp = now + 1 is accepted.
C3_WitnessAccepted ==
    /\ out.op = "from_token_with_validation"
    /\ MacMatches(out.key)
    /\ out.now + 1 = OutDecoded.claims.exp
    /\ out.res.ok

\* The changes of a token after which its MAC no longer matches its claims.
MacBreaking == {"exp_past", "exp_later", "typ", "resign", "garbage_mac", "empty_mac"}

\* C4: a token of create_token whose claims segment or MAC segment was
\* changed is refused with TokenInvalid, whatever the change.
C4_TamperDetection ==
    (/\ out.op = "from_token_with_validation"
     /\ out.tok.how \in MacBreaking
     /\ out.key = out.tok.key
     /\ 0 <= out.now)
    => out.res = Err("TokenInvalid")

\* C8: a token of create_token with exp after the clock, validated under
\* another key, is refused with TokenInvalid.
C8_WrongKey ==
    (/\ out.op = "from_token_with_validation"
     /\ out.tok.how = "create_token"
     /\ out.key # out.tok.key
     /\ 0 <= out.now
     /\ out.now < out.tok.c.exp)
    => out.res = Err("TokenInvalid")

C8_Witness ==
    /\ out.op = "from_token_with_validation"
    /\ out.tok.how = "create_token"
    /\ out.key # out.tok.key
    /\ 0 <= out.now
    /\ out.now < out.tok.c.exp
    /\ out.res = Err("TokenInvalid")

\* C9: the wire codes are 0, 1, 2 and u8_from and try_from are inverse on
\* them; a token accepted by the MAC and the clock whose typ is another value
\* v is refused with InvalidTokenType carrying v, for every expected kind.
C9_UnknownTypeCode ==
    /\ \A t \in TokenType : try_from(u8_from(t)) = [ok |-> TRUE, typ |-> t, v |-> u8_from(t)]
    /\ \A v \in 0..U8Max : try_from(v).ok <=> v \in {0, 1, 2}
    /\ \A v \in {0, 1, 2} : u8_from(try_from(v).typ) = v
    /\ (/\ out.op = "validate_token"
        /\ MacMatches(token_signing_key)
        /\ 0 <= out.now
        /\ out.now < OutDecoded.claims.exp
        /\ OutDecoded.claims.typ \notin {0, 1, 2})
       => out.res = InvalidTokenType(OutDecoded.claims.typ)

C9_Witness ==
    /\ out.op = "validate_token"
    /\ out.res.err = "InvalidTokenType"
    /\ out.res.v = 3

\* C15: from_token_without_validation returns Ok(c) for the token
\* create_token makes of any claims c under any key, also when exp is not
\* after the clock, whatever the key, the MAC and the clock are.
C15_DecodeWithoutValidation ==
    (/\ out.op = "from_token_without_validation"
     /\ out.tok.how = "create_token")
    => out.res = Ok(out.tok.c)

\* The changes of a token that leave its claims text and a MAC in hex.
ClaimsKeeping == {"create_token", "resign", "upper_hex", "empty_mac"}

\* C15, the part the code meets: claims whose strings do not contain the
\* delimiter are returned, at every clock value, under every key and also
\* when the MAC was replaced.
C15_DecodeWithoutValidationWithoutDelimiter ==
    (/\ out.op = "from_token_without_validation"
     /\ out.tok.how \in ClaimsKeeping
     /\ ~HasPipe(out.tok.c.eml)
     /\ ~HasPipe(out.tok.c.cur))
    => out.res = Ok(out.tok.c)

DecodeOps == {"from_token_with_validation", "from_token_without_validation"}

\* The four ways a transport string is malformed: it is no base64url, its
\* text has no delimiter, the claims text handed to the codec is no
\* TokenClaims, the text after the last delimiter is no hex.
NotBase64(token) == ~base64_decode_config(token).ok

NoDelimiter(token) == ~HasPipe(token.bytes)

LastPipe(b) == CHOOSE i \in 1..Len(b) : IsPipe(b[i]) /\ \A j \in (i + 1)..Len(b) : ~IsPipe(b[j])

ClaimsUnparseable(token) ==
    HasPipe(token.bytes) /\
        ~from_str(SelectSeq(SubSeq(token.bytes, 1, LastPipe(token.bytes) - 1),
                            LAMBDA x : ~IsPipe(x))).ok

MacNotHex(token) ==
    HasPipe(token.bytes) /\
        \E i \in (LastPipe(token.bytes) + 1)..Len(token.bytes) :
            token.bytes[i].k \notin {"hex", "HEX"}

Malformed(token) ==
    \/ NotBase64(token)
    \/ NoDelimiter(token)
    \/ ClaimsUnparseable(token)
    \/ MacNotHex(token)

C16_WitnessNotBase64 ==
    /\ out.op = "from_token_without_validation"
    /\ NotBase64(out.tok.token)
    /\ out.res = Err("TokenInvalid")

\* a text without delimiter,
C16_WitnessNoDelimiter ==
    /\ out.op = "from_token_without_validation"
    /\ ~NotBase64(out.tok.token)
    /\ NoDelimiter(out.tok.token)
    /\ out.res = Err("TokenInvalid")

\* and a claims text with a member missing.
C16_WitnessClaims ==
    /\ out.op = "from_token_without_validation"
    /\ out.tok.how = "no_exp"
    /\ ClaimsUnparseable(out.tok.token)
    /\ ~MacNotHex(out.tok.token)
    /\ out.res = Err("TokenInvalid")

\* C24: the claims text handed to the claims decoder and to the MAC
\* verification is the text before the last '|' of the decoded buffer, earlier
\* '|' kept, and the MAC is what follows the last '|'.
C24_LastDelimiterFraming ==
    (out.op \in DecodeOps /\ OutDecoded.ok) =>
        LET b == out.tok.token.bytes
            p == LastPipe(b)
        IN /\ OutDecoded.claims_json_str = SubSeq(b, 1, p - 1)
           /\ OutDecoded.hash = hex_decode(SubSeq(b, p + 1, Len(b))).bytes

\* C24, the part the code meets: the MAC is what follows the last '|', and
\* the claims text is the text before it when that text has no '|' itself.
C24_FramingOfOneDelimiter ==
    (out.op \in DecodeOps /\ OutDecoded.ok) =>
        LET b == out.tok.token.bytes
            p == LastPipe(b)
        IN /\ OutDecoded.hash = hex_decode(SubSeq(b, p + 1, Len(b))).bytes
           /\ ~HasPipe(SubSeq(b, 1, p - 1))
                  => OutDecoded.claims_json_str = SubSeq(b, 1, p - 1)

\* C23: a claims text that is not exactly the six members exp, uid, eml,
\* cur, typ, slt with their types (a member missing, of a wrong type or out
\* of range, repeated, or one more that is unknown) is decoded by neither
\* mode, and refused with TokenInvalid by the codec.
C23_StrictDecoding ==
    (out.op \in DecodeOps /\ out.tok.how \in ClaimsTampers) =>
        /\ ~out.res.ok
        /\ out.op = "from_token_without_validation" => out.res = Err("TokenInvalid")

\* C23, the part the code meets: every such text but the one with an unknown
\* member is refused with TokenInvalid by both modes.
C23_StrictDecodingOfKnownMembers ==
    (out.op \in DecodeOps /\ out.tok.how \in ClaimsTampers \ {"extra_member"})
        => out.res = Err("TokenInvalid")

(***************************************************************************)
(* Claims about issuance, validation by kind and the blacklist, checked    *)
(* under Spec (C10 under IssueSpec).                                       *)
(***************************************************************************)
OutListed == \E r \in blacklisted_tokens : r.token = out.tok.token

OutUnexpired == 0 <= out.now /\ out.now < out.tok.c.exp

ValidateOps == {"validate_access_token", "validate_refresh_token", "validate_signin_token"}

\* C5: a token generate_token issued as one kind, presented before its
\* expiration (and not blacklisted), is accepted by the validator of that kind,
\* which returns the claims of the subject it was issued for, and is refused
\* with WrongTokenType by the validators of the two other kinds.
C5_TypeEnforcement ==
    (/\ out.op \in ValidateOps
     /\ OutUnexpired
     /\ ~OutListed)
    => IF out.tok.c.typ = u8_from(out.kind)
       THEN out.res = Ok(out.tok.c)
       ELSE out.res = Err("WrongTokenType")

\* C5, the part the code meets: subjects whose strings do not contain the delimiter.
C5_TypeEnforcementWithoutDelimiter ==
    (/\ out.op \in ValidateOps
     /\ OutUnexpired
     /\ ~OutListed
     /\ ~HasPipe(out.tok.c.eml)
     /\ ~HasPipe(out.tok.c.cur))
    => IF out.tok.c.typ = u8_from(out.kind)
       THEN out.res = Ok(out.tok.c)
       ELSE out.res = Err("WrongTokenType")

\* C6: for a refresh token generate_token issued, is_on_blacklist returns
\* false while the table holds no row for it; once blacklist_token has
\* inserted its row, is_on_blacklist returns true and validate_refresh_token
\* fails with TokenBlacklisted.
C6_Revocation ==
    /\ (out.op = "is_on_blacklist" /\ out.tok.c.typ = 1)
            => out.res = OkBool(OutListed)
    /\ (out.op = "validate_refresh_token" /\ out.tok.c.typ = 1 /\ OutListed)
            => out.res = Err("TokenBlacklisted")

\* C6, the part the code meets: the calls whose store query is answered.
C6_RevocationWhenStoreAnswers ==
    /\ (out.op = "is_on_blacklist" /\ out.tok.c.typ = 1 /\ out.db = "up")
            => out.res = OkBool(OutListed)
    /\ (out.op = "validate_refresh_token" /\ out.tok.c.typ = 1 /\ OutListed /\ out.db = "up")
            => out.res = Err("TokenBlacklisted")

\* C7: once blacklist_token has inserted the row of a token,
\* validate_refresh_token never returns Ok for it again, whatever the store
\* does.
C7_RevokedIsTerminal ==
    (out.op = "validate_refresh_token" /\ OutListed) => ~out.res.ok

\* C7, the part the code meets: no step removes or changes a row of the table.
C7_RowsAreKept == [][blacklisted_tokens \subseteq blacklisted_tokens']_vars

SameIssuance(i, j) ==
    /\ i.params = j.params
    /\ i.token_type = j.token_type
    /\ i.at = j.at

PlainSubject(i) == ~HasPipe(i.params.user_email) /\ ~HasPipe(i.params.user_currency)

\* The lifetime configured for the kind of an issuance is not zero.
PositiveLifetime(i) ==
    CASE i.kind = "Access" -> conf.access_token_lifetime_mins > 0
      [] i.kind = "Refresh" -> conf.refresh_token_lifetime_days > 0
      [] i.kind = "SignIn" -> conf.otp_lifetime_mins > 0

\* C11: a token issued in clock second now has exp = now + L, with L the
\* access minutes times 60 for Access, the refresh days times 86400 for
\* Refresh and twice the passcode minutes times 60 for SignIn; no lifetime
\* depends on the configuration value of another kind.
C11_LifetimePolicy ==
    \A i \in issued :
        /\ i.kind = "Access" => i.c.exp = i.at + conf.access_token_lifetime_mins * 60
        /\ i.kind = "Refresh" => i.c.exp = i.at + conf.refresh_token_lifetime_days * 86400
        /\ i.kind = "SignIn" => i.c.exp = i.at + 2 * conf.otp_lifetime_mins * 60

\* A sign-in token is issued under a configuration whose three values differ.
C11_Witness ==
    \E i \in issued :
        /\ i.kind = "SignIn"
        /\ conf.otp_lifetime_mins = 2
        /\ conf.access_token_lifetime_mins = 1
        /\ conf.refresh_token_lifetime_days = 0
        /\ i.c.exp = i.at + 240

\* C12: for every token generate_token returned, of any kind and under any
\* configured lifetimes, exp is after the second of issuance and the token is
\* accepted by the validation of its kind within that second.
C12_IssuanceInvariant ==
    \A i \in issued :
        /\ i.c.exp > i.at
        /\ validate_token(i.token, i.kind, i.at).ok

\* C12, the part the code meets: exp is after the second of issuance when the
\* lifetime configured for the kind is not zero, and the token is then
\* accepted within that second if the subject has no delimiter in its strings.
C12_FutureWhenLifetimePositive ==
    \A i \in issued :
        PositiveLifetime(i) =>
            /\ i.c.exp > i.at
            /\ PlainSubject(i) => validate_token(i.token, i.kind, i.at).ok

\* C13: the token issued for a kind and a subject decodes with validation
\* under the configured key to claims with the wire code of the kind and the
\* id, email and currency of the subject; the Token returned has the kind as
\* its token_type and exactly one of its three tests is true.
C13_IssuedClaims ==
    \A i \in issued :
        LET d == from_token_with_validation(i.token, token_signing_key, i.at)
        IN /\ d.ok
           /\ d.claims.typ = u8_from(i.kind)
           /\ d.claims.uid = i.params.user_id
           /\ d.claims.eml = i.params.user_email
           /\ d.claims.cur = i.params.user_currency
           /\ i.token_type = i.kind
           /\ Cardinality({b \in {<<1, is_access_token(i)>>, <<2, is_refresh_token(i)>>,
                                   <<3, is_signin_token(i)>>} : b[2]}) = 1

\* C13, the part the code meets: the same for a subject without the delimiter
\* under a lifetime that is not zero.
C13_IssuedClaimsOfPlainSubject ==
    \A i \in issued :
        LET d == from_token_with_validation(i.token, token_signing_key, i.at)
        IN /\ (PlainSubject(i) /\ PositiveLifetime(i)) =>
                    /\ d.ok
                    /\ d.claims.typ = u8_from(i.kind)
                    /\ d.claims.uid = i.params.user_id
                    /\ d.claims.eml = i.params.user_email
                    /\ d.claims.cur = i.params.user_currency
           /\ i.token_type = i.kind
           /\ is_access_token(i) <=> i.kind = "Access"
           /\ is_refresh_token(i) <=> i.kind = "Refresh"
           /\ is_signin_token(i) <=> i.kind = "SignIn"

\* The two issuances of the pair of the last call.
OutPair ==
    {<<i, j>> \in issued \X issued :
        /\ j.n = i.n + 1
        /\ i.token = out.tok.token
        /\ j.token = out.tok2.token
        /\ i.params = j.params}

SubjectOf(c, params) ==
    /\ c.uid = params.user_id
    /\ c.eml = params.user_email
    /\ c.cur = params.user_currency

\* C14: the access token of a pair generate_token_pair returned is accepted
\* as Access and its refresh token as Refresh at the seconds they were issued,
\* both with the id, email and currency of the subject; when the issuance of
\* one of them fails there is no pair.
C14_TokenPair ==
    out.op = "generate_token_pair" =>
        IF out.res.ok
        THEN \E p \in OutPair :
                LET a == validate_access_token(out.tok.token, p[1].at)
                    r == validate_refresh_token(out.tok2.token, "up", p[2].at)
                IN /\ a.ok /\ a.claims.typ = 0 /\ SubjectOf(a.claims, p[1].params)
                   /\ r.ok /\ r.claims.typ = 1 /\ SubjectOf(r.claims, p[1].params)
        ELSE /\ out.tok.token = base64_encode_config(<<>>)
             /\ out.tok2.token = base64_encode_config(<<>>)
             /\ OutPair = {}

\* C14, the part the code meets: the same for a subject without the delimiter
\* under lifetimes that are not zero.
C14_TokenPairOfPlainSubject ==
    out.op = "generate_token_pair" =>
        IF out.res.ok
        THEN \E p \in OutPair :
                LET a == validate_access_token(out.tok.token, p[1].at)
                    r == validate_refresh_token(out.tok2.token, "up", p[2].at)
                IN (PlainSubject(p[1]) /\ PositiveLifetime(p[1]) /\ PositiveLifetime(p[2])) =>
                       /\ a.ok /\ a.claims.typ = 0 /\ SubjectOf(a.claims, p[1].params)
                       /\ r.ok /\ r.claims.typ = 1 /\ SubjectOf(r.claims, p[1].params)
        ELSE /\ out.tok.token = base64_encode_config(<<>>)
             /\ out.tok2.token = base64_encode_config(<<>>)
             /\ out.now < 0

(***************************************************************************)
(* Claims about the lookup (LookupSpec) and the insertion (RevokeSpec).    *)
(***************************************************************************)
\* The store answers the query of the last call with a row for its token.
OutRowFound == out.db = "up" /\ OutListed

\* C17: is_on_blacklist returns Ok(true) exactly when the query returns a row
\* for the token; when there is no row or the store fails it returns
\* Ok(false) and never an error, and validate_refresh_token then returns what
\* the validation of signature, expiration and kind returns.
C17_LookupOnStoreFailure ==
    /\ out.op = "is_on_blacklist" => out.res = OkBool(OutRowFound)
    /\ (out.op = "validate_refresh_token" /\ ~OutRowFound)
            => out.res = validate_token(out.tok.token, "Refresh", out.now)

\* The store fails on the lookup of a token that has a row, and
\* validate_refresh_token accepts the token.
C17_Witness ==
    /\ out.op = "validate_refresh_token"
    /\ out.db = "down"
    /\ OutListed
    /\ out.res.ok

\* C18: blacklist_token returns TokenInvalid for a string that does not
\* decode and for one whose exp is above the largest i64, and DatabaseError
\* when the insertion fails; the table is then as it was before the call.
C18_RevokeErrors ==
    out.op = "blacklist_token" =>
        LET d == from_token_without_validation(out.tok.token)
            unfit == Malformed(out.tok.token) \/ d.claims.exp > I64Max
        IN /\ unfit => out.res = Err("TokenInvalid")
           /\ (~unfit /\ out.db = "down") => out.res = Err("DatabaseError")
           /\ (~unfit /\ out.db = "up") => out.res.ok
           /\ ~out.res.ok => blacklisted_tokens = out.rows

\* A string whose exp is the first value above the largest i64 is refused
\* while the store is up,
C18_Witness ==
    /\ out.op = "blacklist_token"
    /\ ~Malformed(out.tok.token)
    /\ out.tok.c.exp = I64Max + 1
    /\ out.db = "up"
    /\ out.res = Err("TokenInvalid")
    /\ blacklisted_tokens = {}

\* one with the largest i64 is stored,
C18_WitnessLargest ==
    /\ out.op = "blacklist_token"
    /\ out.tok.c.exp = I64Max
    /\ out.res.ok
    /\ \E r \in blacklisted_tokens : r.token_expiration_time = I64Max

\* a string that does not decode is refused,
C18_WitnessUndecodable ==
    /\ out.op = "blacklist_token"
    /\ Malformed(out.tok.token)
    /\ out.db = "up"
    /\ out.res = Err("TokenInvalid")

\* and a failed insertion is DatabaseError.
C18_WitnessStore ==
    /\ out.op = "blacklist_token"
    /\ out.db = "down"
    /\ out.res = Err("DatabaseError")
    /\ blacklisted_tokens = {}

\* C26: validate_refresh_token decodes, verifies the MAC, the expiration and
\* the kind first and asks the store afterwards: a token that fails one of
\* them gets TokenInvalid, TokenExpired or WrongTokenType, never
\* TokenBlacklisted, also when its string has a row in the table.
C26_ValidationBeforeLookup ==
    out.op = "validate_refresh_token" =>
        LET v == validate_token(out.tok.token, "Refresh", out.now)
        IN IF ~v.ok THEN out.res = v
           ELSE out.res = IF OutRowFound THEN Err("TokenBlacklisted") ELSE v

\* C26, the part the code meets: the order changes the error reported and
\* nothing else; a token is accepted exactly when it passes the validation and
\* the store returns no row for it, and without a row the result is the one of
\* the validation.
C26_AcceptanceWhateverTheOrder ==
    out.op = "validate_refresh_token" =>
        LET v == validate_token(out.tok.token, "Refresh", out.now)
        IN /\ out.res.ok <=> (v.ok /\ ~OutRowFound)
           /\ out.res.ok => out.res = v
           /\ (~out.res.ok /\ out.res # v) => (OutRowFound /\ out.res = Err("TokenBlacklisted"))

\* C25: a blacklist_token that succeeds has added one row to the table, with
\* the string as it was given, the uid and the exp of its claims, has returned
\* that row and has left the rows before as they were, whatever the MAC, the
\* key, the kind and the expiration of the token.
C25_RevokePersists ==
    (out.op = "blacklist_token" /\ out.res.ok) =>
        LET d == from_token_without_validation(out.tok.token)
        IN \E r \in blacklisted_tokens \ out.rows :
              /\ blacklisted_tokens = out.rows \cup {r}
              /\ r.token = out.tok.token
              /\ r.user_id = d.claims.uid
              /\ r.token_expiration_time = d.claims.exp
              /\ out.tok.how \in ClaimsKeeping =>
                     /\ r.user_id = out.tok.c.uid
                     /\ r.token_expiration_time = out.tok.c.exp
              /\ out.res.row = r.id

\* An expired token with the MAC of another key is stored next to the row
\* the table had before.
C25_Witness ==
    /\ out.op = "blacklist_token"
    /\ out.res.ok
    /\ out.tok.how = "resign"
    /\ out.tok.c.exp <= out.now
    /\ out.rows # {}
    /\ Cardinality(blacklisted_tokens) = Cardinality(out.rows) + 1

(***************************************************************************)
(* Claims about the strings derived from a token, checked under DeriveSpec. *)
(***************************************************************************)
\* C29: the only string from_token_with_validation accepts under a key with
\* claims c is create_token of c under that key; so, once a valid refresh
\* token has a row in the blacklist, validate_refresh_token accepts no other
\* string with the result that token had.
C29_NonMalleable ==
    /\ (out.op = "from_token_with_validation" /\ out.res.ok)
            => out.tok.token = create_token(out.res.claims, out.key)
    /\ (out.op = "validate_refresh_token" /\ out.res.ok)
            => ~\E r \in blacklisted_tokens :
                    /\ r.token # out.tok.token
                    /\ validate_token(r.token, "Refresh", out.now) = out.res

\* The string made of a blacklisted refresh token by one more '|' in its
\* claims text, or by the upper-case form of its MAC, is accepted as a
\* refresh token while the store is up.
C29_BlacklistPassedByDelimiter ==
    /\ out.op = "validate_refresh_token"
    /\ out.tok.how = "pipe"
    /\ out.db = "up"
    /\ out.res = Ok(out.tok.c)
    /\ \E r \in blacklisted_tokens : r.token = create_token(out.tok.c, out.tok.key)

C29_BlacklistPassedByCase ==
    /\ out.op = "validate_refresh_token"
    /\ out.tok.how = "upper_hex"
    /\ out.db = "up"
    /\ out.res = Ok(out.tok.c)
    /\ \E r \in blacklisted_tokens : r.token = create_token(out.tok.c, out.tok.key)

\* C29, the part the code meets: a string accepted carries the MAC under the
\* key of the claims text recovered from it, and but for those two
\* derivations it is create_token of the claims returned.
C29_AcceptedDerivations ==
    (out.op \in {"from_token_with_validation", "validate_refresh_token"} /\ out.res.ok) =>
        /\ MacMatches(out.key)
        /\ out.tok.how \notin {"pipe", "upper_hex"}
              => out.tok.token = create_token(out.res.claims, out.key)

(***************************************************************************)
(* Claims about the operations and the store, checked under IsolationSpec. *)
(***************************************************************************)
\* The call remembered, made in the state as it is now, and the calls it is
\* made of: validate_token and, for a token accepted, the two decode modes.
LogAgain ==
    log.op \in StoreFree =>
        /\ log.res = IF log.op = "validate_access_token"
                     THEN validate_access_token(log.tok.token, log.now)
                     ELSE validate_signin_token(log.tok.token, log.now)
        /\ log.res = validate_token(log.tok.token, log.kind, log.now)
        /\ log.res.ok =>
              /\ log.res = from_token_with_validation(log.tok.token, log.key, log.now)
              /\ log.res = from_token_without_validation(log.tok.token)

\* C30: generate_token, generate_token_pair, validate_access_token,
\* validate_signin_token, validate_token and the two decode modes return the
\* same in two states that differ in the table only; no step but a
\* blacklist_token changes the table, and that step leaves is_on_blacklist of
\* every string but the one it stores as it was.
C30_StoreIsolation ==
    /\ [](/\ LogAgain
          /\ \A i \in issued :
                generate_token(i.params, i.kind, i.at, i.salt).token = i.token)
    /\ [][blacklisted_tokens' # blacklisted_tokens =>
            /\ out'.op = "blacklist_token"
            /\ \A params \in Subjects, salt \in Salts, now \in {clock} :
                  /\ \A token_type \in TokenType :
                        generate_token(params, token_type, now, salt)'
                            = generate_token(params, token_type, now, salt)
                  /\ generate_token_pair(params, now, salt, now, salt)'
                        = generate_token_pair(params, now, salt, now, salt)
            /\ \A h \in Held, db \in {"up", "down"} :
                  h.token # out'.tok.token
                      => is_on_blacklist(h.token, db)' = is_on_blacklist(h.token, db)
         ]_vars

\* An access token was accepted at the empty table and then blacklisted;
\* the refresh token issued with it has no row.
C30_Witness ==
    /\ log.op = "validate_access_token"
    /\ log.res.ok
    /\ log.rows = {}
    /\ out.op = "blacklist_token"
    /\ out.res.ok
    /\ out.tok.token = log.tok.token
    /\ \E h \in Held :
          /\ h.token # out.tok.token
          /\ is_on_blacklist(h.token, "up") = OkBool(FALSE)

(***************************************************************************)
(* Claims about the formatting of errors, checked under FmtSpec.           *)
(***************************************************************************)
\* C28: formatting a TokenError of any variant ends after a bounded number of
\* steps with the message of that variant, and fmt is never called on the
\* value while a call of fmt on it has not returned.
C28_ErrorFormattingTerminates ==
    /\ display.frames <= 1
    /\ display.status # "stack overflow"
    /\ display.status = "returned" => display.text = Message(display.self)

\* C28, the part the code meets: the two variants that carry a value.
C28_FormattingOfCarryingVariants ==
    display.self.variant \in {"DatabaseError", "InvalidTokenType"} =>
        /\ display.frames <= 1
        /\ display.status # "stack overflow"
        /\ display.status = "returned" => display.text = Message(display.self)

\* Their formatting ends,
C28_CarryingVariantsReturn ==
    (display.status = "running"
        /\ display.self.variant \in {"DatabaseError", "InvalidTokenType"})
            ~> display.status = "returned"

\* that of the five others never does: it ends the process.
C28_UnitVariantsNeverReturn ==
    display.self.variant \in UnitVariants => display.status # "returned"

C28_UnitVariantsOverflow ==
    (display.status = "running" /\ display.self.variant \in UnitVariants)
        ~> display.status = "stack overflow"

(***************************************************************************)
(* Claims about the attempt throttle, checked under ThrottleSpec.          *)
(***************************************************************************)
CallLocked == is_locked(calls.user_id, calls.kind)

CallMax == max_attempts(calls.kind)

C19_WitnessAtMaximum ==
    /\ calls.op = "record_failure"
    /\ CallMax = 2
    /\ calls.n = 2
    /\ ~CallLocked

\* C20: in every state, also a locked one and whether or not the window is
\* over, reset leaves the counter at zero, and is_locked is false right
\* after it when the maximum of the kind is at least 1.
C20_ResetUnlocks ==
    calls.op = "reset" =>
        /\ Table(calls.kind)[calls.user_id].attempt_count = 0
        /\ ~Table(calls.kind)[calls.user_id].elapsed
        /\ CallMax >= 1 => ~CallLocked

\* reset of a locked counter whose window is over.
C20_Witness ==
    /\ calls.op = "reset"
    /\ CallMax >= 1
    /\ calls.before.attempt_count >= CallMax
    /\ calls.before.elapsed
    /\ ~CallLocked

\* reset of a locked counter within its window.
C20_WitnessWithinWindow ==
    /\ calls.op = "reset"
    /\ CallMax >= 1
    /\ calls.before.attempt_count >= CallMax
    /\ ~calls.before.elapsed
    /\ ~CallLocked

\* The row of the last call, after it.
CallRow == Table(calls.kind)[calls.user_id]

\* C21: record_failure creates a row with a count of zero for a user without
\* row, otherwise adds exactly 1 to the count while the window since the last
\* reset is running and sets the count to 1 when it is over; it returns the
\* count it leaves.
C21_CountingRule ==
    calls.op = "record_failure" =>
        /\ CallRow.present
        /\ ~calls.before.present => CallRow.attempt_count = 0
        /\ (calls.before.present /\ ~calls.before.elapsed)
                => CallRow.attempt_count = calls.before.attempt_count + 1
        /\ (calls.before.present /\ calls.before.elapsed) => CallRow.attempt_count = 1
        /\ calls.count = CallRow.attempt_count

\* A count of 2 whose window is over becomes 1.
C21_Witness ==
    /\ calls.op = "record_failure"
    /\ calls.before.present
    /\ calls.before.elapsed
    /\ calls.before.attempt_count = 2
    /\ CallRow.attempt_count = 1
    /\ calls.count = 1

\* C22: record_failure, reset and the end of a window for one kind of one
\* user leave the counter of the other kind of that user and every counter
\* of every other user as they were, and with them is_locked for those.
C22_Independence ==
    [][\A u \in Uids, k \in AttemptKinds :
            (u # calls'.user_id \/ k # calls'.kind) =>
                /\ Table(k)'[u] = Table(k)[u]
                /\ is_locked(u, k)' = is_locked(u, k)]_vars

\* A user is locked for the passcode by passcode failures while the password
\* counter of the same user and the passcode counter of the other user have
\* rows and are not locked.
C22_Witness ==
    /\ calls.op = "record_failure"
    /\ calls.user_id = 1
    /\ calls.kind = "otp"
    /\ security.otp_max_attempts = 1
    /\ is_locked(1, "otp")
    /\ password_attempts[1].present
    /\ password_attempts[1].attempt_count = 1
    /\ ~is_locked(1, "password")
    /\ otp_attempts[2].present
    /\ ~is_locked(2, "otp")

(***************************************************************************)
(* The throttle under concurrent calls, checked under RaceSpec.            *)
(***************************************************************************)
\* Two handlers have finished a call for the same user and kind that read the
\* same row.
SameRead ==
    /\ \A p \in Procs : ~pending.procs[p].busy
    /\ pending.procs[1].user_id = pending.procs[2].user_id
    /\ pending.procs[1].kind = pending.procs[2].kind
    /\ pending.procs[1].seen = pending.procs[2].seen
    /\ pending.procs[1].seen.present

\* C27: record_failure writes the count it computed from the row it read,
\* whatever was written to the row in between; two calls for the same user
\* and kind that read the same row therefore leave the count 1 above the one
\* read, not 2, and the user is locked later than after the maximum of
\* failures.
C27_UnderCount ==
    /\ calls.op = "record_failure" =>
            /\ CallRow = record_failure(calls.before)
            /\ calls.count = CallRow.attempt_count
    /\ (calls.op = "record_failure" /\ SameRead /\ pending.procs[1].kind = calls.kind
            /\ pending.procs[1].user_id = calls.user_id)
            => CallRow.attempt_count = pending.procs[1].seen.attempt_count + 1

\* Three failures of one user for the passcode, the last two at the same
\* time, leave a count of 1: with a maximum of 2 the user is not locked.
C27_Witness ==
    /\ calls.op = "record_failure"
    /\ calls.kind = "otp"
    /\ pending.started = 3
    /\ SameRead
    /\ pending.procs[1].kind = "otp"
    /\ pending.procs[1].user_id = calls.user_id
    /\ pending.procs[1].seen = Row(0)
    /\ CallRow.attempt_count = 1
    /\ security.otp_max_attempts = 2
    /\ ~CallLocked

====
